---- MODULE Spec2Model ----
(***************************************************************************)
(* Model of ballnspring/conductivity.py: the thermal conductivity kappa of  *)
(* a ball-and-spring network driven at two interfaces.                      *)
(*                                                                          *)
(* Numbers.  Python floats and complex numbers are modelled exactly, as     *)
(* Gaussian rationals <<re, im, den>> = (re + im*i)/den with den > 0 in     *)
(* lowest terms.  A non-finite value (inf or nan, which numpy produces on a *)
(* division by zero under errstate "ignore") is the single value            *)
(* <<0, 0, 0>>.  Real input arrays (m, k, gamma, the gamma and mass         *)
(* matrices and the block matrices of the eigenproblem) hold integers.      *)
(* Arrays are functions on 0..n-1, so indices are the source's indices.     *)
(***************************************************************************)
EXTENDS Integers, Sequences, FiniteSets, TLC

(***************************************************************************)
(* Bounds of the model.                                                     *)
(***************************************************************************)
MaxAtoms == 2
MaxRows == 7
MaxSeed == 1

(***************************************************************************)
(* Literal strides of the source.                                           *)
(***************************************************************************)
GammaStride == 3
PowerStride == 3

(***************************************************************************)
(* Exact arithmetic on Gaussian rationals.                                  *)
(***************************************************************************)
Abs(x) == IF x < 0 THEN -x ELSE x

RECURSIVE GCD(_, _)
GCD(a, b) == IF b = 0 THEN a ELSE GCD(b, a % b)

NonFinite == <<0, 0, 0>>

IsFinite(x) == x[3] # 0

Norm(a, b, d) ==
  IF d = 0 THEN NonFinite
  ELSE IF d = 1 THEN <<a, b, 1>>
  ELSE LET g == GCD(GCD(Abs(a), Abs(b)), d)
       IN  <<a \div g, b \div g, d \div g>>

Cx(x) == <<x, 0, 1>>

Zero == Cx(0)

Neg(x) == <<-x[1], -x[2], x[3]>>

Add(x, y) ==
  IF x[3] = 0 \/ y[3] = 0 THEN NonFinite
  ELSE IF x[3] = y[3] THEN Norm(x[1] + y[1], x[2] + y[2], x[3])
  ELSE Norm(x[1] * y[3] + y[1] * x[3], x[2] * y[3] + y[2] * x[3], x[3] * y[3])

Sub(x, y) == Add(x, Neg(y))

Mul(x, y) ==
  IF x[3] = 0 \/ y[3] = 0 THEN NonFinite
  ELSE Norm(x[1] * y[1] - x[2] * y[2], x[1] * y[2] + x[2] * y[1], x[3] * y[3])

\* x / y as numpy.true_divide computes it with divide and invalid ignored:
\* a zero divisor gives inf or nan, a non-finite value.
TrueDivide(x, y) ==
  IF x[3] = 0 \/ y[3] = 0 THEN NonFinite
  ELSE LET n2 == y[1] * y[1] + y[2] * y[2]
       IN  IF n2 = 0 THEN NonFinite
           ELSE Norm((x[1] * y[1] + x[2] * y[2]) * y[3],
                     (x[2] * y[1] - x[1] * y[2]) * y[3],
                     x[3] * n2)

(***************************************************************************)
(* numpy helpers.                                                           *)
(***************************************************************************)
PyLen(a) == Cardinality(DOMAIN a)

Range(n) == 0 .. (n - 1)

\* the Python list or array holding the elements of a sequence, indexed from 0
Arr(s) == [p \in Range(Len(s)) |-> s[p + 1]]

\* np.tile(v, (n, 1)): n rows, each a copy of v
Tile(v, n) == [r \in Range(n) |-> v]

\* np.transpose of an n x n array
Transpose(a) ==
  [r \in DOMAIN a |-> [c \in DOMAIN a |-> a[c][r]]]

\* sum of the entries lo .. hi-1 of a 1-D array (numpy adds pairwise; the
\* arithmetic is exact, so the grouping does not change the value)
RECURSIVE SumRange(_, _, _)
SumRange(v, lo, hi) ==
  IF hi <= lo THEN Zero
  ELSE IF hi = lo + 1 THEN v[lo]
  ELSE LET mid == (lo + hi) \div 2
       IN  Add(SumRange(v, lo, mid), SumRange(v, mid, hi))

\* sum of the first n entries of a 1-D array
SumTo(v, n) == SumRange(v, 0, n)

\* np.sum of a 2-D array
NpSum(a) == SumTo([r \in DOMAIN a |-> SumTo(a[r], PyLen(a[r]))], PyLen(a))

(***************************************************************************)
(* _calculate_gamma_mat                                                     *)
(***************************************************************************)
\* np.hstack(drivers): the driver groups, one after the other
HStackDrivers(drivers) ==
  LET l0 == PyLen(drivers[0])
      l1 == PyLen(drivers[1])
  IN  [p \in Range(l0 + l1) |-> IF p < l0 THEN drivers[0][p] ELSE drivers[1][p - l0]]

\* np.zeros((n, n))
Zeros(n) == [r \in Range(n) |-> [c \in Range(n) |-> 0]]

\* np.identity(n)
Identity(n) == [r \in Range(n) |-> [c \in Range(n) |-> IF r = c THEN 1 ELSE 0]]

\* every gmat[3*driver + i, 3*driver + i] the loops assign is inside gmat
GammaInBounds(dim, N, drivers) ==
  LET flat == HStackDrivers(drivers)
  IN  \A p \in DOMAIN flat : \A i \in Range(dim) :
        GammaStride * flat[p] + i < dim * N

\* the inner loop (lines 147-148) for one driver
GammaSetDriver(gmat, driver, dim, gamma) ==
  [r \in DOMAIN gmat |-> [c \in DOMAIN gmat[r] |->
     IF r = c /\ r - GammaStride * driver \in Range(dim) THEN gamma ELSE gmat[r][c]]]

\* the outer loop (line 146) from position p of the flattened drivers on
RECURSIVE GammaLoop(_, _, _, _, _)
GammaLoop(gmat, flat, p, dim, gamma) ==
  IF p >= PyLen(flat) THEN gmat
  ELSE GammaLoop(GammaSetDriver(gmat, flat[p], dim, gamma), flat, p + 1, dim, gamma)

\* the matrix _calculate_gamma_mat returns when no index is out of bounds
GammaMat(dim, N, gamma, drivers) ==
  GammaLoop(Zeros(dim * N), HStackDrivers(drivers), 0, dim, gamma)

(***************************************************************************)
(* The mass matrix, np.diag(np.repeat(m, dim))                              *)
(***************************************************************************)
\* Repeat with the masses cycled (np.tile) instead of repeated
RepeatAsTile(m, dim) == [p \in Range(PyLen(m) * dim) |-> m[p % PyLen(m)]]

\* np.repeat(m, dim): each element dim times in a row
Repeat(m, dim) == [p \in Range(PyLen(m) * dim) |-> m[p \div dim]]

\* np.diag of a 1-D array
Diag(v) == [r \in DOMAIN v |-> [c \in DOMAIN v |-> IF r = c THEN v[r] ELSE 0]]

MassMatrix(m, dim) == Diag(Repeat(m, dim))

(***************************************************************************)
(* _calculate_thermal_evec                                                  *)
(***************************************************************************)
\* number of columns of a 2-D array (0 for an array without rows)
Cols(a) == IF PyLen(a) = 0 THEN 0 ELSE PyLen(a[0])

\* np.concatenate((x, y), axis=1), defined when x and y have as many rows
ConcatCols(x, y) ==
  [r \in DOMAIN x |-> [c \in Range(Cols(x) + Cols(y)) |->
     IF c < Cols(x) THEN x[r][c] ELSE y[r][c - Cols(x)]]]

\* np.concatenate((x, y), axis=0), defined when x and y have as many columns
ConcatRows(x, y) ==
  [r \in Range(PyLen(x) + PyLen(y)) |->
     IF r < PyLen(x) THEN x[r] ELSE y[r - PyLen(x)]]

\* -M
NegMat(a) == [r \in DOMAIN a |-> [c \in DOMAIN a[r] |-> -(a[r][c])]]

\* c of lines 127-130: the left matrix handed to the eigensolver
EigLeft(K, G, M) ==
  LET N == PyLen(M)
      a == ConcatCols(Zeros(N), Identity(N))
      b == ConcatCols(K, G)
  IN  ConcatRows(a, b)

\* EigRight with M in place of -M
EigRightPlusM(K, G, M) ==
  LET N == PyLen(M)
      x == ConcatCols(Identity(N), Zeros(N))
      y == ConcatCols(Zeros(N), M)
  IN  ConcatRows(x, y)

\* z of lines 132-135: the right matrix handed to the eigensolver
EigRight(K, G, M) ==
  LET N == PyLen(M)
      x == ConcatCols(Identity(N), Zeros(N))
      y == ConcatCols(Zeros(N), NegMat(M))
  IN  ConcatRows(x, y)

\* the concatenations of lines 129-130 fit: K and G have as many rows, and
\* the upper and lower halves as many columns
EvecShapesFit(K, G, M) ==
  /\ PyLen(K) = PyLen(G)
  /\ Cols(K) + Cols(G) = 2 * PyLen(M)

\* a weighted sum of the entries of an integer matrix
RECURSIVE IntSumRange(_, _, _)
IntSumRange(v, lo, hi) ==
  IF hi <= lo THEN 0
  ELSE IF hi = lo + 1 THEN v[lo]
  ELSE LET mid == (lo + hi) \div 2
       IN  IntSumRange(v, lo, mid) + IntSumRange(v, mid, hi)

Digest(a) ==
  LET rows == [r \in DOMAIN a |->
                 LET w == [c \in DOMAIN a[r] |-> (r + 2 * c + 1) * a[r][c]]
                 IN  IntSumRange(w, 0, PyLen(w))]
  IN  IntSumRange(rows, 0, PyLen(rows)) % 3

\* scipy.linalg.eig(c, b=z, right=True).  The solver is library code: the
\* model takes it as a fixed deterministic function of its two arguments that
\* returns len(c) eigenvalues and a len(c) x len(c) matrix of right
\* eigenvectors, all complex.  The spectra it ranges over hold zero
\* eigenvalues and pairs of opposite eigenvalues.
LibEig(c, z) ==
  LET n == PyLen(c)
      h == (Digest(c) + 2 * Digest(z)) % 3
  IN  [w  |-> [x \in Range(n) |-> <<((x + h) % 3) - 1, ((x \div 3 + h) % 3) - 1, 1>>],
       vr |-> [r \in Range(n) |-> [x \in Range(n) |->
                 <<((r + 2 * x + h) % 3) - 1, (r * x + h) % 2, 1>>]]]

\* ThermalEvec cutting K down to the size of G instead of failing
ThermalEvecTruncating(K, G, M) ==
  LET N == PyLen(G)
      Kcut == [r \in Range(N) |-> [c \in Range(N) |-> K[r][c]]]
      c == EigLeft(Kcut, G, M)
      z == EigRight(Kcut, G, M)
      sol == LibEig(c, z)
  IN  [err |-> "", c |-> c, z |-> z, w |-> sol.w, vr |-> sol.vr]

\* what a call of _calculate_thermal_evec does: the exception np.concatenate
\* raises on arrays that do not fit, or "", the two matrices handed to the
\* solver, and the eigenvalues and eigenvectors the solver returns
ThermalEvec(K, G, M) ==
  IF ~EvecShapesFit(K, G, M)
  THEN [err |-> "ValueError", c |-> <<>>, z |-> <<>>, w |-> <<>>, vr |-> <<>>]
  ELSE LET c == EigLeft(K, G, M)
           z == EigRight(K, G, M)
           sol == LibEig(c, z)
       IN  [err |-> "", c |-> c, z |-> z, w |-> sol.w, vr |-> sol.vr]

(***************************************************************************)
(* _calculate_coeff                                                         *)
(***************************************************************************)
\* an integer (real) matrix as a matrix of numbers
CxMat(a) == [r \in DOMAIN a |-> [c \in DOMAIN a[r] |-> Cx(a[r][c])]]

\* np.dot(x, y) of an r x n and an n x c matrix of numbers
Dot(x, y) ==
  [r \in DOMAIN x |-> [c \in Range(Cols(y)) |->
     SumTo([t \in DOMAIN y |-> Mul(x[r][t], y[t][c])], PyLen(y))]]

\* np.ones((r, c))
Ones(r, c) == [p \in Range(r) |-> [q \in Range(c) |-> Cx(1)]]

\* CoeffA with the eigenvalues tiled down the rows instead of across the columns
CoeffALamdaByRow(val, vec, massMat, gMat) ==
  LET N == PyLen(vec) \div 2
      top == [r \in Range(N) |-> vec[r]]
      lamda == [r \in Range(N) |-> [c \in Range(2 * N) |-> val[r]]]
      d1 == Dot(CxMat(massMat), lamda)
      d2 == Dot(CxMat(gMat), Ones(N, 2 * N))
      bottom == [r \in Range(N) |-> [c \in Range(2 * N) |->
                   Mul(top[r][c], Add(d1[r][c], d2[r][c]))]]
  IN  ConcatRows(top, bottom)

\* the matrix A of lines 110-116
CoeffA(val, vec, massMat, gMat) ==
  LET N == PyLen(vec) \div 2
      top == [r \in Range(N) |-> vec[r]]
      lamda == Tile(val, N)
      d1 == Dot(CxMat(massMat), lamda)
      d2 == Dot(CxMat(gMat), Ones(N, 2 * N))
      bottom == [r \in Range(N) |-> [c \in Range(2 * N) |->
                   Mul(top[r][c], Add(d1[r][c], d2[r][c]))]]
  IN  ConcatRows(top, bottom)

\* the matrix B of line 119
CoeffB(vec) ==
  LET N == PyLen(vec) \div 2
  IN  ConcatRows(Zeros(N), Identity(N))

\* a matrix with an all-zero row or column is singular
SurelySingular(A) ==
  \/ \E r \in DOMAIN A : \A c \in DOMAIN A[r] : A[r][c] = Zero
  \/ \E c \in Range(Cols(A)) : \A r \in DOMAIN A : A[r][c] = Zero

DigestCx(A) ==
  Digest([r \in DOMAIN A |-> [c \in DOMAIN A[r] |-> A[r][c][1] + 2 * A[r][c][2]]])

\* np.linalg.solve(A, B) for a matrix A it does not reject.  The solver is
\* library code: the model takes it as a fixed deterministic function of the
\* system that returns a complex matrix with the rows of A and the columns
\* of B.
LibSolve(A, B) ==
  LET h == DigestCx(A)
  IN  [x \in DOMAIN A |-> [q \in Range(Cols(B)) |->
         <<((2 * x + q + h) % 3) - 1, (x + q + h) % 2, 1>>]]

(***************************************************************************)
(* _calculate_power                                                         *)
(***************************************************************************)
\* ErrstateEnter without the errstate block: the caller's mode stays in force
ErrstateEnterAmbient(ambient) == ambient

\* with np.errstate(divide="ignore", invalid="ignore"): the error mode in
\* force inside the block, whatever the caller's mode is
ErrstateEnter(ambient) == "ignore"

\* leaving the block puts the caller's mode back
ErrstateExit(saved, inside) == saved

\* the division of line 83 raises FloatingPointError under mode "raise" when
\* some divisor val[sigma] + val[tau] is zero
DivideRaises(val, mode) ==
  /\ mode = "raise"
  /\ \E sigma \in DOMAIN val : \E tau \in DOMAIN val :
       Add(val[sigma], val[tau]) = Zero

\* Regularize without the replacement of line 84
RegularizeKeep(x) == x

\* line 84 for one entry: valterm[~np.isfinite(valterm)] = 0.
Regularize(x) == IF IsFinite(x) THEN x ELSE Zero

\* valterm of lines 79-84
Valterm(val) ==
  LET n == PyLen(val)
      val_sigma == Tile(val, n)
      val_tau == Transpose(val_sigma)
  IN  [r \in Range(n) |-> [c \in Range(n) |->
         Regularize(TrueDivide(Sub(val_sigma[r][c], val_tau[r][c]),
                               Add(val_sigma[r][c], val_tau[r][c])))]]

\* FluxGroup reading the first group
FluxGroupFirst(driverList) == driverList[0]

\* line 73: driver1 = driverList[1], the group whose atoms the flux sums over
FluxGroup(driverList) == driverList[1]

\* line 89: term3[tau][sigma] = vec[3*i + idim, sigma]
Term3(vec, i, idim, n) == Tile(vec[PowerStride * i + idim], n)

\* Term4 without the transposition
Term4Row(vec, j, jdim, n) == Tile(vec[PowerStride * j + jdim], n)

\* line 90: term4[tau][sigma] = vec[3*j + jdim, tau]
Term4(vec, j, jdim, n) == Transpose(Tile(vec[PowerStride * j + jdim], n))

\* the indices _calculate_power reads are all inside their arrays
PowerInBounds(i, j, dim, val, vec, coeff, kMatrix, driverList) ==
  LET driver1 == FluxGroup(driverList)
  IN  dim > 0 =>
        /\ \A idim \in Range(dim) :
             /\ PowerStride * i + idim \in DOMAIN vec
             /\ PowerStride * j + idim \in DOMAIN vec
        /\ PyLen(driver1) > 0 =>
             /\ \A d \in Range(PyLen(driver1)) : \A x \in DOMAIN coeff :
                  PowerStride * driver1[d] + 2 \in DOMAIN coeff[x]
             /\ \A idim \in Range(dim) : \A jdim \in Range(dim) :
                  /\ PowerStride * i + idim \in DOMAIN kMatrix
                  /\ PowerStride * j + jdim \in DOMAIN kMatrix[PowerStride * i + idim]

\* the value _calculate_power returns when no index is out of bounds
PowerValue(i, j, dim, val, vec, coeff, kMatrix, driverList) ==
  LET driver1 == FluxGroup(driverList)
      n == PyLen(val)
      valterm == Valterm(val)
      DriverTerm(idim, jdim, term3, term4, driver) ==
        LET csum == [x \in Range(n) |->
                       Add(Add(coeff[x][PowerStride * driver],
                               coeff[x][PowerStride * driver + 1]),
                           coeff[x][PowerStride * driver + 2])]
            term1 == Tile(csum, n)
            term2 == Transpose(term1)
            kij == Cx(kMatrix[PowerStride * i + idim][PowerStride * j + jdim])
            termArr == [r \in Range(n) |-> [c \in Range(n) |->
                          Mul(Mul(Mul(Mul(Mul(kij, term1[r][c]), term2[r][c]),
                                      term3[r][c]), term4[r][c]), valterm[r][c])]]
        IN  NpSum(termArr)
      DimTerm(idim, jdim) ==
        LET term3 == Term3(vec, i, idim, n)
            term4 == Term4(vec, j, jdim, n)
            perDriver == [d \in Range(PyLen(driver1)) |->
                            DriverTerm(idim, jdim, term3, term4, driver1[d])]
        IN  SumTo(perDriver, PyLen(driver1))
      perDim == [p \in Range(dim * dim) |-> DimTerm(p \div dim, p % dim)]
  IN  SumTo(perDim, dim * dim)

\* what a call of _calculate_power does: the exception it raises, or "" and
\* the value it returns
Power(i, j, dim, val, vec, coeff, kMatrix, driverList, ambient) ==
  IF DivideRaises(val, ErrstateEnter(ambient))
  THEN [err |-> "FloatingPointError", value |-> <<>>]
  ELSE IF ~PowerInBounds(i, j, dim, val, vec, coeff, kMatrix, driverList)
  THEN [err |-> "IndexError", value |-> <<>>]
  ELSE [err |-> "", value |-> PowerValue(i, j, dim, val, vec, coeff, kMatrix, driverList)]

(***************************************************************************)
(* The inputs of kappa the model ranges over.                               *)
(***************************************************************************)
DefaultGamma == 10

\* masses of n atoms
Masses(n, s) == [a \in Range(n) |-> 1 + ((a + s) % 2)]

\* a symmetric rows x rows Hessian
Hessian(rows, s) ==
  [r \in Range(rows) |-> [c \in Range(rows) |->
     IF r = c THEN 2 + s ELSE ((r + c + s) % 3) - 1]]

Pairs(n) == {Arr(<<i, j>>) : i \in Range(n), j \in Range(n)}

\* two driver groups of the same length: none driven, one atom each, or the
\* first and last atom in both
DriverChoices(n) ==
  {Arr(<<Arr(<<>>), Arr(<<>>)>>)}
    \cup {Arr(<<Arr(<<a>>), Arr(<<b>>)>>) : a \in Range(n), b \in Range(n)}
    \cup {Arr(<<Arr(<<0, n - 1>>), Arr(<<n - 1, 0>>)>>)}

\* no crossing, one crossing, a crossing and its reverse, a crossing twice
CrossingChoices(n) ==
  {Arr(<<>>)}
    \cup {Arr(<<p>>) : p \in Pairs(n)}
    \cup {Arr(<<Arr(<<0, n - 1>>), Arr(<<n - 1, 0>>)>>),
          Arr(<<Arr(<<n - 1, 0>>), Arr(<<n - 1, 0>>)>>)}

\* the input with n atoms, a rows x rows Hessian, seed s, drivers d, crossings x
Input(n, rows, s, d, x) ==
  [m |-> Masses(n, s), k |-> Hessian(rows, s), drivers |-> d, crossings |-> x,
   gamma |-> IF s = 0 THEN DefaultGamma ELSE s]

\* the Hessians tried with n atoms have up to three rows an atom and one
\* more, so that len(k) is and is not a multiple of len(m)
RowChoices(n) ==
  LET most == GammaStride * n + 1
  IN  1 .. (IF most < MaxRows THEN most ELSE MaxRows)

Inputs ==
  UNION {{Input(n, rows, s, d, x) :
            rows \in RowChoices(n), s \in 0 .. MaxSeed,
            d \in DriverChoices(n), x \in CrossingChoices(n)} :
         n \in 1 .. MaxAtoms}

\* the inputs of the repeated calls: two atoms in three dimensions, and a
\* Hessian one row short
RepeatInputs ==
  {Input(2, rows, s, Arr(<<Arr(<<0>>), Arr(<<1>>)>>), x) :
     rows \in {5, 6}, s \in 0 .. MaxSeed,
     x \in {Arr(<<Arr(<<0, 1>>)>>), Arr(<<Arr(<<1, 0>>), Arr(<<1, 0>>)>>)}}

ErrModes == {"warn", "ignore", "raise"}

(***************************************************************************)
(* State.  m, k, drivers, crossings, gamma are the caller's objects; given  *)
(* is the input as the caller passed it, with the error mode at the call.   *)
(* The other variables are the locals of the running call of kappa:         *)
(* driverArr is the local drivers after line 25, massMat the local m after  *)
(* line 29, eig_c and eig_z the matrices handed to the eigensolver, A and B *)
(* the system handed to the linear solver.  np_err is numpy's process-wide  *)
(* error mode.  first is the record of one earlier call.                    *)
(***************************************************************************)
VARIABLES pc, m, k, drivers, crossings, gamma, given,
          dim, driverArr, g, massMat, eig_c, eig_z, val, vec, A, B, coeff,
          kappa, pos, ret, err, np_err, first

args == <<m, k, drivers, crossings, gamma>>
locals == <<dim, driverArr, g, massMat, eig_c, eig_z, val, vec, A, B, coeff, kappa, pos>>
vars == <<pc, args, given, locals, ret, err, np_err, first>>

None == <<>>

BlankLocals ==
  /\ dim = 0 /\ driverArr = None /\ g = None /\ massMat = None
  /\ eig_c = None /\ eig_z = None /\ val = None /\ vec = None
  /\ A = None /\ B = None /\ coeff = None /\ kappa = None /\ pos = 0

Init ==
  /\ pc = "idle"
  /\ m = None /\ k = None /\ drivers = None /\ crossings = None /\ gamma = 0
  /\ given = None
  /\ BlankLocals
  /\ ret = None /\ err = ""
  /\ np_err = "warn"
  /\ first = None

\* the call raises: the exception leaves kappa, nothing is returned
Raise(e) == pc' = "raised" /\ err' = e /\ ret' = None

\* the caller calls kappa(m, k, drivers, crossings, gamma)
Call(inp) ==
  /\ pc = "idle"
  /\ m' = inp.m /\ k' = inp.k /\ drivers' = inp.drivers
  /\ crossings' = inp.crossings /\ gamma' = inp.gamma
  /\ given' = [inp |-> inp, np_err |-> np_err]
  /\ pc' = "dim"
  /\ UNCHANGED <<locals, ret, err, np_err, first>>

CallKappa == \E inp \in Inputs : Call(inp)

\* lines 22-25: dim = len(k)//len(m); drivers = np.array(drivers)
ComputeDim ==
  /\ pc = "dim"
  /\ IF PyLen(m) = 0
     THEN Raise("ZeroDivisionError") /\ UNCHANGED <<dim, driverArr>>
     ELSE /\ dim' = PyLen(k) \div PyLen(m)
          /\ driverArr' = drivers
          /\ pc' = "gamma"
          /\ UNCHANGED <<ret, err>>
  /\ UNCHANGED <<args, given, g, massMat, eig_c, eig_z, val, vec, A, B, coeff,
                 kappa, pos, np_err, first>>

\* line 27: g = _calculate_gamma_mat(dim, len(m), gamma, drivers)
CalculateGammaMat ==
  /\ pc = "gamma"
  /\ IF GammaInBounds(dim, PyLen(m), driverArr)
     THEN /\ g' = GammaMat(dim, PyLen(m), gamma, driverArr)
          /\ pc' = "mass"
          /\ UNCHANGED <<ret, err>>
     ELSE Raise("IndexError") /\ UNCHANGED g
  /\ UNCHANGED <<args, given, dim, driverArr, massMat, eig_c, eig_z, val, vec,
                 A, B, coeff, kappa, pos, np_err, first>>

\* line 29: m = np.diag(np.repeat(m, dim)), a new array bound to the local m
BuildMassMatrix ==
  /\ pc = "mass"
  /\ massMat' = MassMatrix(m, dim)
  /\ pc' = "evec"
  /\ UNCHANGED <<args, given, dim, driverArr, g, eig_c, eig_z, val, vec, A, B,
                 coeff, kappa, pos, ret, err, np_err, first>>

\* line 31: val, vec = _calculate_thermal_evec(k, g, m)
CalculateThermalEvec ==
  /\ pc = "evec"
  /\ LET e == ThermalEvec(k, g, massMat)
     IN  IF e.err = ""
         THEN /\ eig_c' = e.c
              /\ eig_z' = e.z
              /\ val' = e.w
              /\ vec' = e.vr
              /\ pc' = "coeff"
              /\ UNCHANGED <<ret, err>>
         ELSE Raise(e.err) /\ UNCHANGED <<eig_c, eig_z, val, vec>>
  /\ UNCHANGED <<args, given, dim, driverArr, g, massMat, A, B, coeff, kappa,
                 pos, np_err, first>>

\* line 33: coeff = _calculate_coeff(val, vec, m, g)
CalculateCoeff ==
  /\ pc = "coeff"
  /\ A' = CoeffA(val, vec, massMat, g)
  /\ B' = CoeffB(vec)
  /\ IF SurelySingular(A')
     THEN Raise("LinAlgError") /\ UNCHANGED coeff
     ELSE /\ coeff' = LibSolve(A', B')
          /\ pc' = "init"
          /\ UNCHANGED <<ret, err>>
  /\ UNCHANGED <<args, given, dim, driverArr, g, massMat, eig_c, eig_z, val, vec,
                 kappa, pos, np_err, first>>

\* Accumulate with = in place of +=
AccumulateOverwrite(total, flux) == flux

\* line 40: kappa += the flux of the crossing
Accumulate(total, flux) == Add(total, flux)

\* line 36: kappa = 0.
InitKappa ==
  /\ pc = "init"
  /\ kappa' = Zero
  /\ pos' = 0
  /\ pc' = "loop"
  /\ UNCHANGED <<args, given, dim, driverArr, g, massMat, eig_c, eig_z, val, vec,
                 A, B, coeff, ret, err, np_err, first>>

\* lines 38-40, one iteration: kappa += _calculate_power(i, j, ...)
AddCrossing ==
  /\ pc = "loop"
  /\ pos < PyLen(crossings)
  /\ LET i == crossings[pos][0]
         j == crossings[pos][1]
         p == Power(i, j, dim, val, vec, coeff, k, driverArr, np_err)
     IN  /\ np_err' = ErrstateExit(np_err, ErrstateEnter(np_err))
         /\ IF p.err = ""
            THEN /\ kappa' = Accumulate(kappa, p.value)
                 /\ pos' = pos + 1
                 /\ UNCHANGED <<pc, ret, err>>
            ELSE Raise(p.err) /\ UNCHANGED <<kappa, pos>>
  /\ UNCHANGED <<args, given, dim, driverArr, g, massMat, eig_c, eig_z, val, vec,
                 A, B, coeff, first>>

\* line 43: return kappa
Return ==
  /\ pc = "loop"
  /\ pos = PyLen(crossings)
  /\ ret' = kappa
  /\ pc' = "done"
  /\ UNCHANGED <<args, given, locals, err, np_err, first>>

Steps ==
  \/ ComputeDim
  \/ CalculateGammaMat
  \/ BuildMassMatrix
  \/ CalculateThermalEvec
  \/ CalculateCoeff
  \/ InitKappa
  \/ AddCrossing
  \/ Return

Next == CallKappa \/ Steps

Spec == Init /\ [][Next]_vars

(***************************************************************************)
(* One call under any error mode the caller may have set before it.         *)
(***************************************************************************)
InitModes ==
  /\ pc = "idle"
  /\ m = None /\ k = None /\ drivers = None /\ crossings = None /\ gamma = 0
  /\ given = None
  /\ BlankLocals
  /\ ret = None /\ err = ""
  /\ np_err \in ErrModes
  /\ first = None

SpecModes == InitModes /\ [][Next]_vars

(***************************************************************************)
(* Repeated calls.  Between calls the caller may change numpy's error mode  *)
(* (np.seterr); when a call has ended its frame is gone, and the caller     *)
(* calls again.  first keeps the input, the error mode and the outcome of   *)
(* one ended call.                                                          *)
(***************************************************************************)
CallAgain == \E inp \in RepeatInputs : Call(inp)

\* the caller runs np.seterr between two calls
SetErr ==
  /\ pc = "idle"
  /\ \E e \in ErrModes \ {np_err} : np_err' = e
  /\ UNCHANGED <<pc, args, given, locals, ret, err, first>>

\* the call has ended: its locals are gone, the caller lets go of the arguments
EndCall ==
  /\ pc \in {"done", "raised"}
  /\ pc' = "idle"
  /\ m' = None /\ k' = None /\ drivers' = None /\ crossings' = None /\ gamma' = 0
  /\ given' = None
  /\ dim' = 0 /\ driverArr' = None /\ g' = None /\ massMat' = None
  /\ eig_c' = None /\ eig_z' = None /\ val' = None /\ vec' = None
  /\ A' = None /\ B' = None /\ coeff' = None /\ kappa' = None /\ pos' = 0
  /\ ret' = None /\ err' = ""
  /\ UNCHANGED np_err

Forget == EndCall /\ UNCHANGED first

Remember ==
  /\ first = None
  /\ EndCall
  /\ first' = [inp |-> given.inp, np_err |-> given.np_err, ret |-> ret, err |-> err]

NextCalls == CallAgain \/ Steps \/ SetErr \/ Forget \/ Remember

SpecCalls == Init /\ [][NextCalls]_vars

(***************************************************************************)
(* How far the running call has come.                                       *)
(***************************************************************************)
GammaCalled == pc \notin {"idle", "dim", "gamma"}
GammaRaised == pc = "raised" /\ err = "IndexError" /\ kappa = None
AfterMass == pc \in {"evec", "coeff", "init", "loop", "done"}
AfterEvec == pc \in {"coeff", "init", "loop", "done"}
AfterCoeff == pc \in {"init", "loop", "done"}
AtCrossing == pc = "loop" /\ pos < PyLen(crossings)

\* the outcome of _calculate_power on the crossing (i, j) with the locals of
\* the running call and the driver list d
PowerAt(i, j, d) == Power(i, j, dim, val, vec, coeff, k, d, np_err)

\* the crossing the loop is about to evaluate
NextI == crossings[pos][0]
NextJ == crossings[pos][1]

(***************************************************************************)
(* C1.  _calculate_gamma_mat returns without error, for every dim >= 1 and  *)
(* every nonempty driver set, the dim*N x dim*N matrix with gamma at        *)
(* (dim*idx + c, dim*idx + c) for every driven atom idx and component c,    *)
(* and zero everywhere else.                                                *)
(***************************************************************************)
C1_GammaMatrixAsSpecified ==
  (GammaCalled /\ dim >= 1 /\ PyLen(HStackDrivers(driverArr)) > 0) =>
    LET flat == HStackDrivers(driverArr)
        n == dim * PyLen(m)
    IN  /\ ~GammaRaised
        /\ g = [r \in Range(n) |-> [c \in Range(n) |->
                  IF r = c /\ \E p \in DOMAIN flat : \E q \in Range(dim) :
                                r = dim * flat[p] + q
                  THEN gamma ELSE 0]]

(***************************************************************************)
(* C2.  The mass matrix is dim*N x dim*N, holds m[a] at                     *)
(* (dim*a + c, dim*a + c) for every atom a and component c, and zero off    *)
(* the diagonal.                                                            *)
(***************************************************************************)
C2_MassMatrixRepeatsEachMass ==
  AfterMass =>
    LET n == dim * PyLen(given.inp.m)
    IN  /\ DOMAIN massMat = Range(n)
        /\ \A r \in Range(n) : DOMAIN massMat[r] = Range(n)
        /\ \A a \in DOMAIN given.inp.m : \A q \in Range(dim) :
             massMat[dim * a + q][dim * a + q] = given.inp.m[a]
        /\ \A r \in Range(n) : \A c \in Range(n) : r # c => massMat[r][c] = 0

C2_Witness ==
  /\ pc = "evec"
  /\ dim = 3
  /\ PyLen(m) = 2
  /\ m[0] # m[1]

(***************************************************************************)
(* The flux of the crossing (i, j) as the sum, over the components idim and *)
(* jdim, the drivers d of the second group and the mode pairs (sigma, tau), *)
(* of k[3i+idim, 3j+jdim] c_d[sigma] c_d[tau] vec[3i+idim, sigma]           *)
(* vec[3j+jdim, tau] vt(sigma, tau), where c_d[x] is the sum of             *)
(* coeff[x, 3d], coeff[x, 3d+1] and coeff[x, 3d+2].  Keep(sigma, tau) says  *)
(* which mode pairs the sum runs over.                                      *)
(***************************************************************************)
ModePairSum(i, j, d, vt(_, _), Keep(_, _)) ==
  LET n == PyLen(val)
      c_d(x) == Add(Add(coeff[x][3 * d], coeff[x][3 * d + 1]), coeff[x][3 * d + 2])
      PairTerm(idim, jdim, sigma, tau) ==
        IF Keep(sigma, tau)
        THEN Mul(Cx(k[3 * i + idim][3 * j + jdim]),
                 Mul(Mul(c_d(sigma), c_d(tau)),
                     Mul(Mul(vec[3 * i + idim][sigma], vec[3 * j + jdim][tau]),
                         vt(sigma, tau))))
        ELSE Zero
      OverTau(idim, jdim, sigma) ==
        SumTo([tau \in Range(n) |-> PairTerm(idim, jdim, sigma, tau)], n)
      OverSigma(idim, jdim) ==
        SumTo([sigma \in Range(n) |-> OverTau(idim, jdim, sigma)], n)
  IN  SumTo([q \in Range(dim * dim) |-> OverSigma(q \div dim, q % dim)], dim * dim)

FluxSum(i, j, group, vt(_, _), Keep(_, _)) ==
  SumTo([t \in DOMAIN group |-> ModePairSum(i, j, group[t], vt, Keep)], PyLen(group))

ZeroSum(sigma, tau) == Add(val[sigma], val[tau]) = Zero

(***************************************************************************)
(* C3.  A mode pair whose eigenvalues add up to zero has the valterm entry  *)
(* zero, every other pair the entry (val[sigma] - val[tau]) /               *)
(* (val[sigma] + val[tau]); the flux is the sum over the other pairs        *)
(* alone, and no division error leaves _calculate_power, whatever the       *)
(* caller's error mode.                                                     *)
(***************************************************************************)
C3_ZeroDenominatorsContributeZero ==
  /\ err # "FloatingPointError"
  /\ AfterEvec =>
       LET valterm == Valterm(val)
       IN  \A sigma \in DOMAIN val : \A tau \in DOMAIN val :
             IF ZeroSum(sigma, tau)
             THEN valterm[tau][sigma] = Zero
             ELSE Mul(valterm[tau][sigma], Add(val[sigma], val[tau]))
                    = Sub(val[sigma], val[tau])
  /\ (AtCrossing /\ PowerAt(NextI, NextJ, driverArr).err = "") =>
       LET Quotient(sigma, tau) ==
             TrueDivide(Sub(val[sigma], val[tau]), Add(val[sigma], val[tau]))
           Keep(sigma, tau) == ~ZeroSum(sigma, tau)
       IN  /\ IsFinite(PowerAt(NextI, NextJ, driverArr).value)
           /\ PowerAt(NextI, NextJ, driverArr).value
                = FluxSum(NextI, NextJ, driverArr[1], Quotient, Keep)

C3_Witness ==
  /\ pc = "loop"
  /\ pos >= 1
  /\ np_err = "raise"
  /\ kappa # Zero
  /\ \E sigma \in DOMAIN val : \E tau \in DOMAIN val :
       sigma # tau /\ ZeroSum(sigma, tau)

(***************************************************************************)
(* C4.  With a symmetric Hessian, swapping the endpoints of a crossing      *)
(* negates its flux, the flux of a crossing (i, i) is zero, and kappa over  *)
(* the crossings with every pair reversed is the negation of kappa.         *)
(***************************************************************************)
Reversed(cs) == [t \in DOMAIN cs |-> Arr(<<cs[t][1], cs[t][0]>>)]

KappaOver(cs) ==
  SumTo([t \in DOMAIN cs |-> PowerAt(cs[t][0], cs[t][1], driverArr).value], PyLen(cs))

C4_SwappingCrossingNegatesFlux ==
  /\ AtCrossing =>
       LET p == PowerAt(NextI, NextJ, driverArr)
           q == PowerAt(NextJ, NextI, driverArr)
           s == PowerAt(NextI, NextI, driverArr)
       IN  /\ q.err = p.err
           /\ p.err = "" => q.value = Neg(p.value)
           /\ s.err = "" => s.value = Zero
  /\ pc = "done" => KappaOver(Reversed(crossings)) = Neg(ret)

C4_Witness ==
  /\ pc = "done"
  /\ PyLen(crossings) >= 1
  /\ crossings[0][0] # crossings[0][1]
  /\ ret # Zero

(***************************************************************************)
(* C5.  kappa returns the sum, from 0 and in list order, of the flux of     *)
(* every crossing of the list, unscaled: the running total after the first  *)
(* pos crossings is the sum of their fluxes, and the value returned is the  *)
(* total over the whole list (0 for the empty list, a repeated crossing     *)
(* counted as often as it is listed).                                       *)
(***************************************************************************)
FluxOfFirst(n) ==
  SumTo([t \in Range(n) |->
           PowerAt(crossings[t][0], crossings[t][1], driverArr).value], n)

C5_KappaIsSumOverCrossings ==
  /\ pc = "loop" => kappa = FluxOfFirst(pos)
  /\ pc = "done" => ret = FluxOfFirst(PyLen(crossings))
  /\ (pc = "done" /\ PyLen(crossings) = 0) => ret = Zero

C5_Witness ==
  /\ pc = "done"
  /\ PyLen(crossings) = 2
  /\ crossings[0] = crossings[1]
  /\ ret # Zero

(***************************************************************************)
(* C6.  When len(k) is not a multiple of len(m), kappa fails: it never gets *)
(* past the eigenproblem, returns no value, and ends in the shape error of  *)
(* np.concatenate or in an index error of the gamma matrix.                 *)
(***************************************************************************)
Mismatched == pc # "idle" /\ PyLen(k) % PyLen(m) # 0

C7_KappaIsPure ==
  /\ pc # "idle" =>
       /\ m = given.inp.m
       /\ k = given.inp.k
       /\ drivers = given.inp.drivers
       /\ crossings = given.inp.crossings
       /\ np_err = given.np_err
  /\ (pc \in {"done", "raised"} /\ first # None /\ first.inp = given.inp) =>
       /\ ret = first.ret
       /\ err = first.err

C7_Witness ==
  /\ pc = "done"
  /\ first # None
  /\ first.inp = given.inp
  /\ first.np_err # given.np_err
  /\ ret # Zero

(***************************************************************************)
(* C8.  _calculate_power reads the second driver group alone: its value is  *)
(* the sum over idim, jdim, the drivers d of drivers[1] and the mode pairs  *)
(* of k[3i+idim, 3j+jdim] c_d[sigma] c_d[tau] vec[3i+idim, sigma]           *)
(* vec[3j+jdim, tau] valterm(sigma, tau), and another first driver group    *)
(* changes nothing.                                                         *)
(***************************************************************************)
OtherFirstGroups == {Arr(<<>>), Arr(<<0>>), Arr(<<PyLen(m) - 1, 0>>)}

C8_PowerReadsSecondDriverGroup ==
  AtCrossing =>
    LET p == PowerAt(NextI, NextJ, driverArr)
        valterm(sigma, tau) ==
          IF ZeroSum(sigma, tau) THEN Zero
          ELSE TrueDivide(Sub(val[sigma], val[tau]), Add(val[sigma], val[tau]))
        All(sigma, tau) == TRUE
    IN  /\ p.err = "" => p.value = FluxSum(NextI, NextJ, driverArr[1], valterm, All)
        /\ \A other \in OtherFirstGroups :
             PowerAt(NextI, NextJ, [driverArr EXCEPT ![0] = other]) = p

C8_Witness ==
  /\ AtCrossing
  /\ PyLen(driverArr[0]) = 1 /\ PyLen(driverArr[1]) = 1
  /\ driverArr[0][0] # driverArr[1][0]
  /\ PowerAt(NextI, NextJ, driverArr).err = ""
  /\ PowerAt(NextI, NextJ, driverArr).value # Zero

(***************************************************************************)
(* C9.  _calculate_coeff hands the linear solver the 2N x 2N matrix A with  *)
(* A[r, c] = vec[r, c] and A[N+r, c] = vec[r, c] * (M[r, r] * val[c] + the  *)
(* sum of row r of G) for r < N, and B = N zero rows over the N x N         *)
(* identity, N = len(vec)//2; it returns what the solver returns for that   *)
(* system, a 2N x N matrix.                                                 *)
(***************************************************************************)
RowSum(a, r) == IntSumRange(a[r], 0, PyLen(a[r]))

C9_CoeffSolvesTheStatedSystem ==
  AfterCoeff =>
    LET N == PyLen(vec) \div 2
    IN  /\ DOMAIN A = Range(2 * N)
        /\ \A r \in Range(2 * N) : DOMAIN A[r] = Range(2 * N)
        /\ \A r \in Range(N) : \A c \in Range(2 * N) :
             /\ A[r][c] = vec[r][c]
             /\ A[N + r][c] =
                  Mul(vec[r][c],
                      Add(Mul(Cx(massMat[r][r]), val[c]), Cx(RowSum(g, r))))
        /\ B = [r \in Range(2 * N) |-> [c \in Range(N) |->
                  IF r = N + c THEN 1 ELSE 0]]
        /\ coeff = LibSolve(A, B)
        /\ DOMAIN coeff = Range(2 * N)
        /\ \A x \in Range(2 * N) : DOMAIN coeff[x] = Range(N)

C9_Witness ==
  /\ pc = "init"
  /\ dim = 3
  /\ PyLen(m) = 2
  /\ \E r \in DOMAIN g : RowSum(g, r) # 0
  /\ \E r \in DOMAIN g : RowSum(g, r) = 0

(***************************************************************************)
(* C10.  _calculate_thermal_evec hands the eigensolver the left matrix      *)
(* [[0, I], [K, G]] and the right matrix [[I, 0], [0, -M]], leaves K, G and *)
(* M as they were, and returns the solver's eigenvalues and eigenvectors    *)
(* unchanged.                                                               *)
(***************************************************************************)
C10_EigenproblemBlocks ==
  AfterEvec =>
    LET N == PyLen(massMat)
    IN  /\ eig_c = [r \in Range(2 * N) |-> [c \in Range(2 * N) |->
                      IF r < N THEN (IF c = N + r THEN 1 ELSE 0)
                      ELSE IF c < N THEN k[r - N][c] ELSE g[r - N][c - N]]]
        /\ eig_z = [r \in Range(2 * N) |-> [c \in Range(2 * N) |->
                      IF r < N THEN (IF c = r THEN 1 ELSE 0)
                      ELSE IF c < N THEN 0 ELSE -(massMat[r - N][c - N])]]
        /\ k = given.inp.k
        /\ g = GammaMat(dim, PyLen(given.inp.m), given.inp.gamma, given.inp.drivers)
        /\ massMat = MassMatrix(given.inp.m, dim)
        /\ val = LibEig(eig_c, eig_z).w
        /\ vec = LibEig(eig_c, eig_z).vr

C10_Witness ==
  /\ pc = "coeff"
  /\ dim = 3
  /\ PyLen(m) = 2
  /\ \E r \in DOMAIN g : g[r][r] # 0
  /\ \E r \in DOMAIN g : g[r][r] = 0

====
